---- MODULE Spec2Model ----
(* A model of pkg/extractor/extractor.go: path resolution, the file          *)
(* extraction orchestrator, the multi-document YAML loop and the tolerant    *)
(* identity-field extractor.                                                 *)
(*                                                                           *)
(* Strings that are paths are records [abs, segs]; the empty string is the   *)
(* relative path without segments. A file's content is the sequence of its   *)
(* YAML documents, each a record [syn, val]: whether the decoder accepts     *)
(* its syntax, and the tree it denotes. JSON bytes are modelled by the       *)
(* JSON value they spell.                                                    *)
EXTENDS Integers, Sequences, FiniteSets, TLC

VARIABLES fs, wdOk, op, arg, ret, calls

vars == <<fs, wdOk, op, arg, ret, calls>>

----------------------------------------------------------------------------
(* Bounds *)

MaxPathLen == 2

MaxFileDocs == 2

MaxDocs == 3

----------------------------------------------------------------------------
(* Go values *)

NoErr == [nil |-> TRUE]

Err(e) == [nil |-> FALSE, e |-> e]

NilPtr == [nil |-> TRUE]

Ptr(v) == [nil |-> FALSE, v |-> v]

NilSlice == [nil |-> TRUE, elems |-> <<>>]

append_Prepends(slice, x) == [nil |-> FALSE, elems |-> <<x>> \o slice.elems]

append(slice, x) == [nil |-> FALSE, elems |-> Append(slice.elems, x)]

NilMap == [nil |-> TRUE]

GoMap(m) == [nil |-> FALSE, m |-> m]

EmptyString == [abs |-> FALSE, segs |-> <<>>]

SeqsUpTo(S, n) == UNION {[1..k -> S] : k \in 0..n}

----------------------------------------------------------------------------
(* JSON values and YAML trees *)

JNull == [t |-> "null"]

JStr(s) == [t |-> "str", s |-> s]

JNum(n) == [t |-> "num", n |-> n]

JBool(b) == [t |-> "bool", b |-> b]

JArr(a) == [t |-> "arr", a |-> a]

JObj(m) == [t |-> "obj", m |-> m]

YNull == [t |-> "null"]

YStr(s) == [t |-> "str", s |-> s]

YInt(n) == [t |-> "int", n |-> n]

YBool(b) == [t |-> "bool", b |-> b]

YSeq(items) == [t |-> "seq", items |-> items]

YMap(pairs) == [t |-> "map", pairs |-> pairs]

KV(k, v) == [k |-> k, v |-> v]

ZeroNode == [Kind |-> "", Content |-> <<>>]

DocumentNode(val) == [Kind |-> "DocumentNode", Content |-> <<val>>]

----------------------------------------------------------------------------
(* Paths and the filesystem *)

PathSegs == {"w", "f", ".."}

Wd == <<"w">>

Paths == {[abs |-> b, segs |-> s] : b \in BOOLEAN, s \in SeqsUpTo(PathSegs, MaxPathLen)}

FsPaths == {<<"w", "f">>}

RECURSIVE CleanFrom(_, _)
CleanFrom(segs, out) ==
  IF segs = <<>> THEN out
  ELSE LET s == Head(segs)
       IN CleanFrom(Tail(segs),
            CASE s = "." -> out
              [] s = ".." -> IF out = <<>> THEN <<>> ELSE SubSeq(out, 1, Len(out) - 1)
              [] OTHER -> Append(out, s))

(* filepath.Clean of a rooted path *)
Clean(segs) == CleanFrom(segs, <<>>)

(* filepath.Abs: a rooted path is cleaned; any other is joined to the      *)
(* working directory, which os.Getwd may fail to give.                     *)
Abs(path) ==
  IF path.abs THEN [path |-> [abs |-> TRUE, segs |-> Clean(path.segs)], err |-> NoErr]
  ELSE IF ~wdOk THEN [path |-> EmptyString, err |-> Err([msg |-> "getwd"])]
  ELSE [path |-> [abs |-> TRUE, segs |-> Clean(Wd \o path.segs)], err |-> NoErr]

NoEntry == [kind |-> "none", readable |-> FALSE, content |-> <<>>]

DirEntry == [kind |-> "dir", readable |-> FALSE, content |-> <<>>]

(* The entry an absolute path names: the root and the working directory    *)
(* are directories, fs lists the other entries, the rest does not exist.   *)
Lookup(segs) ==
  IF segs = <<>> \/ segs = Wd THEN DirEntry
  ELSE IF segs \in DOMAIN fs THEN fs[segs]
  ELSE NoEntry

(* os.Stat: nil without an entry, its FileInfo otherwise *)
Stat(path) ==
  LET e == Lookup(path.segs)
  IN IF e.kind = "none" THEN NilPtr ELSE Ptr([kind |-> e.kind])

IsDir(fileInfo) == fileInfo.v.kind = "dir"

ToAbsolutePath_AcceptsDir(path) ==
  LET a == Abs(path)
  IN IF ~a.err.nil THEN [path |-> EmptyString, err |-> a.err]
     ELSE LET fileInfo == Stat(a.path)
          IN IF ~fileInfo.nil THEN Abs(a.path)
             ELSE [path |-> EmptyString,
                   err |-> Err([msg |-> "failed parsing absolute path", path |-> path])]

ToAbsolutePath(path) ==
  LET a == Abs(path)
  IN IF ~a.err.nil THEN [path |-> EmptyString, err |-> a.err]
     ELSE LET fileInfo == Stat(a.path)
          IN IF ~fileInfo.nil /\ ~IsDir(fileInfo) THEN Abs(a.path)
             ELSE [path |-> EmptyString,
                   err |-> Err([msg |-> "failed parsing absolute path", path |-> path])]

(* os.ReadFile of an absolute path *)
ReadFileContent(filepath) ==
  LET e == Lookup(filepath.segs)
  IN IF e.readable THEN [content |-> e.content, err |-> NoErr]
     ELSE [content |-> <<>>, err |-> Err([msg |-> "read", path |-> filepath])]

----------------------------------------------------------------------------
(* YAML to JSON *)

(* sigs.k8s.io/yaml renders a scalar mapping key as a string and refuses   *)
(* a key that is a sequence or a mapping.                                  *)
KeyToString(k) ==
  CASE k.t = "str" -> [s |-> k.s, ok |-> TRUE]
    [] k.t = "int" -> [s |-> ToString(k.n), ok |-> TRUE]
    [] k.t = "bool" -> [s |-> IF k.b THEN "true" ELSE "false", ok |-> TRUE]
    [] k.t = "null" -> [s |-> "null", ok |-> TRUE]
    [] OTHER -> [s |-> "", ok |-> FALSE]

LastIndex(f, x) == CHOOSE i \in DOMAIN f : f[i] = x /\ \A j \in DOMAIN f : f[j] = x => j <= i

RECURSIVE YAMLToJSON(_)
YAMLToJSON(y) ==
  CASE y.t = "null" -> [json |-> JNull, err |-> NoErr]
    [] y.t = "str" -> [json |-> JStr(y.s), err |-> NoErr]
    [] y.t = "int" -> [json |-> JNum(y.n), err |-> NoErr]
    [] y.t = "bool" -> [json |-> JBool(y.b), err |-> NoErr]
    [] y.t = "seq" ->
         LET rs == [i \in DOMAIN y.items |-> YAMLToJSON(y.items[i])]
         IN IF \E i \in DOMAIN rs : ~rs[i].err.nil
            THEN [json |-> JNull, err |-> Err([msg |-> "convert"])]
            ELSE [json |-> JArr([i \in DOMAIN rs |-> rs[i].json]), err |-> NoErr]
    [] y.t = "map" ->
         LET ks == [i \in DOMAIN y.pairs |-> KeyToString(y.pairs[i].k)]
             vs == [i \in DOMAIN y.pairs |-> YAMLToJSON(y.pairs[i].v)]
             names == [i \in DOMAIN ks |-> ks[i].s]
         IN IF \E i \in DOMAIN ks : ~ks[i].ok \/ ~vs[i].err.nil
            THEN [json |-> JNull, err |-> Err([msg |-> "convert"])]
            ELSE [json |-> JObj([s \in {names[i] : i \in DOMAIN names} |->
                                   vs[LastIndex(names, s)].json]),
                  err |-> NoErr]

----------------------------------------------------------------------------
(* The field extractor *)

Configuration ==
  [MetadataName |-> "", Kind |-> "", ApiVersion |-> "", Annotations |-> NilMap,
   Payload |-> JNull, YamlNode |-> ZeroNode]

Unmarshal_NullIsError(content) ==
  CASE content.t = "obj" -> [jsonObject |-> GoMap(content.m), err |-> NoErr]
    [] OTHER -> [jsonObject |-> NilMap, err |-> Err([msg |-> "json"])]

(* json.Unmarshal into a map[string]interface{}: an object fills the map,  *)
(* null leaves it nil without an error, any other value is an error.       *)
Unmarshal(content) ==
  CASE content.t = "obj" -> [jsonObject |-> GoMap(content.m), err |-> NoErr]
    [] content.t = "null" -> [jsonObject |-> NilMap, err |-> NoErr]
    [] OTHER -> [jsonObject |-> NilMap, err |-> Err([msg |-> "json"])]

Absent == [t |-> "absent"]

(* m[key] of a Go map: the zero interface for a nil map or a missing key *)
Index(m, key) ==
  IF m.nil THEN Absent
  ELSE IF key \in DOMAIN m.m THEN m.m[key] ELSE Absent

(* v.(string) and v.(map[string]interface{}) *)
IsString(v) == v.t = "str"

IsObject(v) == v.t = "obj"

extractConfigurationK8sData_NeedsMetadata(content, yamlNode) ==
  LET c0 == [Configuration EXCEPT !.Payload = content]
      u == Unmarshal(content)
  IN IF ~u.err.nil THEN c0
     ELSE
       LET metadata == Index(u.jsonObject, "metadata")
           c1 == IF IsObject(metadata) /\ IsString(Index(GoMap(metadata.m), "name"))
                 THEN [c0 EXCEPT !.MetadataName = metadata.m["name"].s] ELSE c0
           c2 == IF IsObject(metadata) /\ IsObject(Index(GoMap(metadata.m), "annotations"))
                 THEN [c1 EXCEPT !.Annotations = GoMap(metadata.m["annotations"].m)] ELSE c1
           apiVersion == Index(u.jsonObject, "apiVersion")
           c3 == IF IsObject(metadata) /\ IsString(apiVersion)
                 THEN [c2 EXCEPT !.ApiVersion = apiVersion.s] ELSE c2
           kind == Index(u.jsonObject, "kind")
           c4 == IF IsObject(metadata) /\ IsString(kind) THEN [c3 EXCEPT !.Kind = kind.s] ELSE c3
       IN [c4 EXCEPT !.YamlNode = yamlNode]

extractConfigurationK8sData(content, yamlNode) ==
  LET c0 == [Configuration EXCEPT !.Payload = content]
      u == Unmarshal(content)
  IN IF ~u.err.nil THEN c0
     ELSE
       LET metadata == Index(u.jsonObject, "metadata")
           c1 == IF IsObject(metadata) /\ IsString(Index(GoMap(metadata.m), "name"))
                 THEN [c0 EXCEPT !.MetadataName = metadata.m["name"].s] ELSE c0
           c2 == IF IsObject(metadata) /\ IsObject(Index(GoMap(metadata.m), "annotations"))
                 THEN [c1 EXCEPT !.Annotations = GoMap(metadata.m["annotations"].m)] ELSE c1
           apiVersion == Index(u.jsonObject, "apiVersion")
           c3 == IF IsString(apiVersion) THEN [c2 EXCEPT !.ApiVersion = apiVersion.s] ELSE c2
           kind == Index(u.jsonObject, "kind")
           c4 == IF IsString(kind) THEN [c3 EXCEPT !.Kind = kind.s] ELSE c3
       IN [c4 EXCEPT !.YamlNode = yamlNode]

----------------------------------------------------------------------------
(* The document loop *)

(* What yaml.Decoder.Decode gives for the i-th document of the content:   *)
(* io.EOF past the last one, the syntax error of a malformed one (its      *)
(* text names the place, here the document), the document node otherwise.  *)
Decode(content, i) ==
  IF i > Len(content) THEN [yamlNode |-> ZeroNode, err |-> Err([msg |-> "EOF"])]
  ELSE IF ~content[i].syn THEN [yamlNode |-> ZeroNode, err |-> Err([msg |-> "decode", doc |-> i])]
  ELSE [yamlNode |-> DocumentNode(content[i].val), err |-> NoErr]

(* yaml.Encoder.Encode of a document node: its tree as YAML text, or the   *)
(* encoder's error for a tree it refuses.                                  *)
Encode(yamlNode) ==
  IF yamlNode.Content[1].t = "unencodable" THEN [bytes |-> YNull, err |-> Err([msg |-> "encode"])]
  ELSE [bytes |-> yamlNode.Content[1], err |-> NoErr]

(* An error of the i-th pass of the loop; the tag tells the passes apart. *)
At(err, i) == Err([msg |-> err.e.msg, doc |-> i])

RECURSIVE Loop(_, _, _, _)
Loop(content, i, configurations, log) ==
  LET d == Decode(content, i)
  IN IF ~d.err.nil
     THEN IF d.err.e.msg = "EOF"
          THEN [configurations |-> Ptr(configurations), err |-> NoErr,
                log |-> Append(log, <<"Decode", i>>)]
          ELSE [configurations |-> NilPtr, err |-> d.err, log |-> Append(log, <<"Decode", i>>)]
     ELSE
       LET enc == Encode(d.yamlNode)
       IN IF ~enc.err.nil
          THEN [configurations |-> NilPtr, err |-> At(enc.err, i),
                log |-> log \o << <<"Decode", i>>, <<"Encode", i>> >>]
          ELSE
            LET j == YAMLToJSON(enc.bytes)
            IN IF ~j.err.nil
               THEN [configurations |-> NilPtr, err |-> At(j.err, i),
                     log |-> log \o << <<"Decode", i>>, <<"Encode", i>>, <<"YAMLToJSON", i>> >>]
               ELSE Loop(content, i + 1,
                         append(configurations, extractConfigurationK8sData(j.json, d.yamlNode)),
                         log \o << <<"Decode", i>>, <<"Encode", i>>, <<"YAMLToJSON", i>>,
                                   <<"extractConfigurationK8sData", i>> >>)

extractYamlConfigurations_NilWhenEmpty(content) ==
  LET r == Loop(content, 1, NilSlice, <<>>)
  IN IF r.err.nil /\ r.configurations.v.nil THEN [r EXCEPT !.configurations = NilPtr] ELSE r

extractYamlConfigurations(content) == Loop(content, 1, NilSlice, <<>>)

ParseYaml_DropsError(content) ==
  LET r == extractYamlConfigurations(content)
  IN [configurations |-> r.configurations, err |-> NoErr, log |-> r.log]

ParseYaml(content) ==
  LET r == extractYamlConfigurations(content)
  IN IF ~r.err.nil THEN [configurations |-> NilPtr, err |-> r.err, log |-> r.log]
     ELSE [configurations |-> r.configurations, err |-> NoErr, log |-> r.log]

----------------------------------------------------------------------------
(* The orchestrator *)

InvalidYamlError(err) == [ErrorMessage |-> err.e]

InvalidFile_AddsPathError(path, err) ==
  [Path |-> path,
   ValidationErrors |-> <<InvalidYamlError(Err([msg |-> "invalid file", path |-> path])),
                          InvalidYamlError(err)>>]

InvalidFile(path, err) == [Path |-> path, ValidationErrors |-> <<InvalidYamlError(err)>>]

ExtractConfigurationsFromYamlFile_IgnoresReadError(path) ==
  LET a == ToAbsolutePath(path)
  IN IF ~a.err.nil
     THEN [configurations |-> NilPtr, absolutePath |-> EmptyString,
           invalidFile |-> Ptr(InvalidFile(path, a.err)),
           log |-> <<"ToAbsolutePath">>]
     ELSE
       LET r == ReadFileContent(a.path)
           p == ParseYaml(r.content)
       IN IF ~p.err.nil
          THEN [configurations |-> NilPtr, absolutePath |-> EmptyString,
                invalidFile |-> Ptr(InvalidFile(a.path, p.err)),
                log |-> <<"ToAbsolutePath", "ReadFileContent", "ParseYaml">>]
          ELSE [configurations |-> p.configurations, absolutePath |-> a.path,
                invalidFile |-> NilPtr,
                log |-> <<"ToAbsolutePath", "ReadFileContent", "ParseYaml">>]

ExtractConfigurationsFromYamlFile_EchoesInputPath(path) ==
  LET a == ToAbsolutePath(path)
  IN IF ~a.err.nil
     THEN [configurations |-> NilPtr, absolutePath |-> EmptyString,
           invalidFile |-> Ptr(InvalidFile(path, a.err)),
           log |-> <<"ToAbsolutePath">>]
     ELSE
       LET r == ReadFileContent(a.path)
       IN IF ~r.err.nil
          THEN [configurations |-> NilPtr, absolutePath |-> EmptyString,
                invalidFile |-> Ptr(InvalidFile(path, r.err)),
                log |-> <<"ToAbsolutePath", "ReadFileContent">>]
          ELSE
            LET p == ParseYaml(r.content)
            IN IF ~p.err.nil
               THEN [configurations |-> NilPtr, absolutePath |-> EmptyString,
                     invalidFile |-> Ptr(InvalidFile(path, p.err)),
                     log |-> <<"ToAbsolutePath", "ReadFileContent", "ParseYaml">>]
               ELSE [configurations |-> p.configurations, absolutePath |-> a.path,
                     invalidFile |-> NilPtr,
                     log |-> <<"ToAbsolutePath", "ReadFileContent", "ParseYaml">>]

ExtractConfigurationsFromYamlFile(path) ==
  LET a == ToAbsolutePath(path)
  IN IF ~a.err.nil
     THEN [configurations |-> NilPtr, absolutePath |-> EmptyString,
           invalidFile |-> Ptr(InvalidFile(path, a.err)),
           log |-> <<"ToAbsolutePath">>]
     ELSE
       LET r == ReadFileContent(a.path)
       IN IF ~r.err.nil
          THEN [configurations |-> NilPtr, absolutePath |-> EmptyString,
                invalidFile |-> Ptr(InvalidFile(a.path, r.err)),
                log |-> <<"ToAbsolutePath", "ReadFileContent">>]
          ELSE
            LET p == ParseYaml(r.content)
            IN IF ~p.err.nil
               THEN [configurations |-> NilPtr, absolutePath |-> EmptyString,
                     invalidFile |-> Ptr(InvalidFile(a.path, p.err)),
                     log |-> <<"ToAbsolutePath", "ReadFileContent", "ParseYaml">>]
               ELSE [configurations |-> p.configurations, absolutePath |-> a.path,
                     invalidFile |-> NilPtr,
                     log |-> <<"ToAbsolutePath", "ReadFileContent", "ParseYaml">>]

----------------------------------------------------------------------------
(* Inputs *)

Doc(val) == [syn |-> TRUE, val |-> val]

BadDoc == [syn |-> FALSE, val |-> YNull]

K8sDoc ==
  Doc(YMap(<<KV(YStr("kind"), YStr("Foo")),
             KV(YStr("metadata"), YMap(<<KV(YStr("name"), YStr("n"))>>))>>))

IntKeyDoc == Doc(YMap(<<KV(YInt(1), YStr("x"))>>))

ComplexKeyDoc == Doc(YMap(<<KV(YSeq(<<YStr("a")>>), YStr("b"))>>))

UnencodableDoc == Doc([t |-> "unencodable"])

Docs ==
  {K8sDoc, IntKeyDoc, ComplexKeyDoc, UnencodableDoc, BadDoc,
   Doc(YStr("hello")), Doc(YNull), Doc(YSeq(<<YInt(1)>>)), Doc(YInt(1)), Doc(YBool(TRUE))}

Contents == SeqsUpTo(Docs, MaxDocs)

FileDocs == {K8sDoc, ComplexKeyDoc, BadDoc}

FileContents == SeqsUpTo(FileDocs, MaxFileDocs)

Entries ==
  {NoEntry, DirEntry,
   [kind |-> "file", readable |-> FALSE, content |-> <<>>],
   [kind |-> "other", readable |-> FALSE, content |-> <<>>],
   [kind |-> "other", readable |-> TRUE, content |-> <<>>]}
  \cup {[kind |-> "file", readable |-> TRUE, content |-> c] : c \in FileContents}

(* A JSON object of the fields of f that are present *)
MkObj(f) == JObj([k \in {x \in DOMAIN f : f[x] # Absent} |-> f[k]])

NameVals == {Absent, JStr("n"), JNum(1)}

AnnotationVals == {Absent, JObj(<<>>), MkObj([k |-> JStr("v")]), JStr("s")}

MetadataVals ==
  {Absent, JStr("x"), JNull}
  \cup {MkObj([name |-> n, annotations |-> a]) : n \in NameVals, a \in AnnotationVals}

KindVals == {Absent, JStr("Foo"), JNum(1)}

ApiVersionVals == {Absent, JStr("v1"), JObj(<<>>)}

JsonObjects ==
  {MkObj([kind |-> k, apiVersion |-> v, metadata |-> m]) :
     k \in KindVals, v \in ApiVersionVals, m \in MetadataVals}

JsonVals == JsonObjects \cup {JNull, JStr("hello"), JNum(1), JBool(TRUE), JArr(<<JNum(1)>>)}

Nodes == {DocumentNode(YStr("hello")), DocumentNode(K8sDoc.val)}

----------------------------------------------------------------------------
(* Calls. The functions keep no state between calls, so a behaviour is    *)
(* one call: op, arg and ret record which function ran, on what, and what  *)
(* it returned; calls logs the collaborators it invoked, in order.         *)

NoValue == [none |-> TRUE]

ToAbsolutePathCall(path) ==
  /\ op = "init"
  /\ op' = "ToAbsolutePath"
  /\ arg' = path
  /\ ret' = ToAbsolutePath(path)
  /\ calls' = <<"ToAbsolutePath">>
  /\ UNCHANGED <<fs, wdOk>>

ExtractConfigurationsFromYamlFileCall(path) ==
  /\ op = "init"
  /\ LET r == ExtractConfigurationsFromYamlFile(path)
     IN /\ ret' = [configurations |-> r.configurations, absolutePath |-> r.absolutePath,
                   invalidFile |-> r.invalidFile]
        /\ calls' = r.log
  /\ op' = "ExtractConfigurationsFromYamlFile"
  /\ arg' = path
  /\ UNCHANGED <<fs, wdOk>>

ParseYamlCall(content) ==
  /\ op = "init"
  /\ LET r == ParseYaml(content)
     IN /\ ret' = [configurations |-> r.configurations, err |-> r.err]
        /\ calls' = r.log
  /\ op' = "ParseYaml"
  /\ arg' = content
  /\ UNCHANGED <<fs, wdOk>>

extractConfigurationK8sDataCall(content, yamlNode) ==
  /\ op = "init"
  /\ op' = "extractConfigurationK8sData"
  /\ arg' = [content |-> content, yamlNode |-> yamlNode]
  /\ ret' = extractConfigurationK8sData(content, yamlNode)
  /\ calls' = <<"extractConfigurationK8sData">>
  /\ UNCHANGED <<fs, wdOk>>

(* The file extraction entry points over a filesystem *)
Init ==
  /\ fs \in [FsPaths -> Entries]
  /\ wdOk \in BOOLEAN
  /\ op = "init"
  /\ arg = NoValue
  /\ ret = NoValue
  /\ calls = <<>>

Next ==
  \/ \E path \in Paths : ToAbsolutePathCall(path)
  \/ \E path \in Paths : ExtractConfigurationsFromYamlFileCall(path)
  \/ \E content \in FileContents : ParseYamlCall(content)

Spec == Init /\ [][Next]_vars

(* The pure functions, on inputs that need no filesystem *)
InitPure ==
  /\ fs = [p \in FsPaths |-> NoEntry]
  /\ wdOk = TRUE
  /\ op = "init"
  /\ arg = NoValue
  /\ ret = NoValue
  /\ calls = <<>>

NextParse == \E content \in Contents : ParseYamlCall(content)

SpecParse == InitPure /\ [][NextParse]_vars

NextField ==
  \E content \in JsonVals, yamlNode \in Nodes : extractConfigurationK8sDataCall(content, yamlNode)

SpecField == InitPure /\ [][NextField]_vars

----------------------------------------------------------------------------
(* What the filesystem and a content hold, read off the inputs *)

AbsForm(path) == [abs |-> TRUE, segs |-> Clean(IF path.abs THEN path.segs ELSE Wd \o path.segs)]

CanResolve(path) == path.abs \/ wdOk

EntryOf(path) == Lookup(AbsForm(path).segs)

ResolveFails(path) == ~CanResolve(path) \/ EntryOf(path).kind \in {"none", "dir"}

ReadFails(path) == ~ResolveFails(path) /\ ~EntryOf(path).readable

DocStage(d) ==
  IF ~d.syn THEN "decode"
  ELSE IF d.val.t = "unencodable" THEN "encode"
  ELSE IF ~YAMLToJSON(d.val).err.nil THEN "convert"
  ELSE "ok"

Failing(content) == {i \in DOMAIN content : DocStage(content[i]) # "ok"}

FirstFailing(content) == CHOOSE k \in Failing(content) : \A j \in Failing(content) : k <= j

ParseFails(path) ==
  ~ResolveFails(path) /\ ~ReadFails(path) /\ Failing(EntryOf(path).content) # {}

FirstError(path) ==
  IF ~CanResolve(path) THEN [msg |-> "getwd"]
  ELSE IF ResolveFails(path) THEN [msg |-> "failed parsing absolute path", path |-> path]
  ELSE IF ReadFails(path) THEN [msg |-> "read", path |-> AbsForm(path)]
  ELSE LET c == EntryOf(path).content
       IN [msg |-> DocStage(c[FirstFailing(c)]), doc |-> FirstFailing(c)]

IsExtract == op = "ExtractConfigurationsFromYamlFile"

----------------------------------------------------------------------------
(* C1: ExtractConfigurationsFromYamlFile returns either a non-nil          *)
(* Configuration list with the resolved absolute path and a nil            *)
(* InvalidFile, or a nil list with an empty path and a non-nil             *)
(* InvalidFile; the second whenever resolution, reading or parsing fails,  *)
(* the first otherwise.                                                    *)
C1_TwoShapes ==
  IsExtract =>
    IF ResolveFails(arg) \/ ReadFails(arg) \/ ParseFails(arg)
    THEN ret.configurations.nil /\ ret.absolutePath = EmptyString /\ ~ret.invalidFile.nil
    ELSE ~ret.configurations.nil /\ ret.absolutePath = AbsForm(arg) /\ ret.invalidFile.nil

C1_Witness ==
  /\ IsExtract
  /\ ParseFails(arg)
  /\ FirstFailing(EntryOf(arg).content) = 2
  /\ ret.configurations.nil
  /\ ~ret.invalidFile.nil

(* C4: a failing ExtractConfigurationsFromYamlFile returns an InvalidFile  *)
(* with exactly one entry in ValidationErrors, carrying the message of     *)
(* the first error met, however many documents are invalid.                *)
C4_OneError ==
  (IsExtract /\ (ResolveFails(arg) \/ ReadFails(arg) \/ ParseFails(arg))) =>
    /\ ~ret.invalidFile.nil
    /\ Len(ret.invalidFile.v.ValidationErrors) = 1
    /\ ret.invalidFile.v.ValidationErrors[1].ErrorMessage = FirstError(arg)

C4_Witness ==
  /\ IsExtract
  /\ ParseFails(arg)
  /\ Cardinality(Failing(EntryOf(arg).content)) = 2
  /\ Len(ret.invalidFile.v.ValidationErrors) = 1
  /\ ret.invalidFile.v.ValidationErrors[1].ErrorMessage.doc = 1

(* C8: the InvalidFile's Path is the input path when resolution fails and  *)
(* the resolved absolute path when reading or parsing fails; the stages    *)
(* run in the order resolve, read, parse, and none runs after one failed.  *)
C8_PathByStage ==
  IsExtract =>
    /\ ResolveFails(arg) =>
         calls = <<"ToAbsolutePath">> /\ ret.invalidFile.v.Path = arg
    /\ ReadFails(arg) =>
         /\ calls = <<"ToAbsolutePath", "ReadFileContent">>
         /\ ret.invalidFile.v.Path = AbsForm(arg)
    /\ ParseFails(arg) =>
         /\ calls = <<"ToAbsolutePath", "ReadFileContent", "ParseYaml">>
         /\ ret.invalidFile.v.Path = AbsForm(arg)
    /\ ~(ResolveFails(arg) \/ ReadFails(arg) \/ ParseFails(arg)) =>
         calls = <<"ToAbsolutePath", "ReadFileContent", "ParseYaml">>

C8_Witness ==
  /\ IsExtract
  /\ ReadFails(arg)
  /\ ~arg.abs
  /\ ret.invalidFile.v.Path = AbsForm(arg)
  /\ ret.invalidFile.v.Path # arg

(* C9: ParseYaml of an empty content returns no error and a non-nil        *)
(* result holding no Configuration; an existing empty file that can be     *)
(* read yields an empty list, its absolute path and a nil InvalidFile.     *)
C9_EmptyContent ==
  /\ (op = "ParseYaml" /\ arg = <<>>) =>
       ret.err.nil /\ ~ret.configurations.nil /\ Len(ret.configurations.v.elems) = 0
  /\ (IsExtract /\ ~ResolveFails(arg) /\ ~ReadFails(arg) /\ EntryOf(arg).content = <<>>) =>
       /\ ~ret.configurations.nil
       /\ Len(ret.configurations.v.elems) = 0
       /\ ret.absolutePath = AbsForm(arg)
       /\ ret.invalidFile.nil

C9_Witness ==
  /\ IsExtract
  /\ EntryOf(arg) = [kind |-> "file", readable |-> TRUE, content |-> <<>>]
  /\ CanResolve(arg)
  /\ ~ret.configurations.nil
  /\ ret.invalidFile.nil

(* C10 as stated: ToAbsolutePath returns the absolute form exactly when    *)
(* the path exists and is a regular file, and an empty string with an      *)
(* error for a missing path, a directory or any other non-regular entry.   *)
C10_RegularFilesOnly ==
  op = "ToAbsolutePath" =>
    IF CanResolve(arg) /\ EntryOf(arg).kind = "file"
    THEN ret.err.nil /\ ret.path = AbsForm(arg)
    ELSE ~ret.err.nil /\ ret.path = EmptyString

C10_Post ==
  op = "ToAbsolutePath" =>
    IF CanResolve(arg) /\ EntryOf(arg).kind \notin {"none", "dir"}
    THEN ret.err.nil /\ ret.path = AbsForm(arg)
    ELSE ~ret.err.nil /\ ret.path = EmptyString

(* C10, amended: ToAbsolutePath returns the absolute form exactly when     *)
(* the path can be made absolute and names an entry that is not a          *)
(* directory (a regular file or any other non-directory entry), an empty   *)
(* string with an error otherwise, and leaves the filesystem as it was.    *)
C10_NonDirectories == [][C10_Post' /\ fs' = fs]_vars

C10_Witness ==
  /\ op = "ToAbsolutePath"
  /\ EntryOf(arg).kind = "other"
  /\ ~arg.abs
  /\ ret.err.nil
  /\ ret.path = AbsForm(arg)

----------------------------------------------------------------------------
(* ParseYaml *)

IsParse == op = "ParseYaml"

JsonOf(d) == YAMLToJSON(d.val).json

Built(r) == r.configurations.v.elems

(* C2 as stated: for a content that decodes as N valid documents,          *)
(* ParseYaml returns without error exactly N Configurations, the i-th      *)
(* built from the i-th document with its JSON form as Payload.             *)
C2_EveryDecodedDocument ==
  (IsParse /\ \A i \in DOMAIN arg : DocStage(arg[i]) \notin {"decode", "encode"}) =>
    /\ ret.err.nil
    /\ ~ret.configurations.nil
    /\ Len(Built(ret)) = Len(arg)
    /\ \A i \in DOMAIN arg : Built(ret)[i].Payload = JsonOf(arg[i])

(* C2, amended: for a content whose N documents all decode, re-encode and  *)
(* convert to JSON, ParseYaml returns without error exactly N              *)
(* Configurations, the i-th built from the i-th document with its JSON     *)
(* form as Payload: none is skipped, duplicated or reordered.              *)
C2_EveryConvertedDocument ==
  (IsParse /\ Failing(arg) = {}) =>
    /\ ret.err.nil
    /\ ~ret.configurations.nil
    /\ Len(Built(ret)) = Len(arg)
    /\ \A i \in DOMAIN arg :
         /\ Built(ret)[i].Payload = JsonOf(arg[i])
         /\ LET u == Built(ret)[i].Payload
            IN u.t = "obj" =>
                 Built(ret)[i].Kind =
                   (IF "kind" \in DOMAIN u.m /\ u.m["kind"].t = "str" THEN u.m["kind"].s ELSE "")

C2_Witness ==
  /\ IsParse
  /\ Failing(arg) = {}
  /\ Len(arg) = 3
  /\ Len(Built(ret)) = 3
  /\ arg[1] # arg[2]
  /\ arg[2] # arg[3]
  /\ Built(ret)[1].Payload # Built(ret)[2].Payload
  /\ Built(ret)[3].Kind = "Foo"

(* C3: when the k-th document is the first that fails to decode, to        *)
(* re-encode or to convert, ParseYaml returns that document's error and a  *)
(* nil list, and processes no document after k.                            *)
C3_AllOrNothing ==
  (IsParse /\ Failing(arg) # {}) =>
    LET k == FirstFailing(arg)
    IN /\ ret.configurations.nil
       /\ ~ret.err.nil
       /\ ret.err.e = [msg |-> DocStage(arg[k]), doc |-> k]
       /\ \A n \in DOMAIN calls : calls[n][2] <= k
       /\ \A i \in 1..(k - 1) : \E n \in DOMAIN calls : calls[n] = <<"extractConfigurationK8sData", i>>
       /\ ~\E n \in DOMAIN calls : calls[n] = <<"extractConfigurationK8sData", k>>

C3_Witness ==
  /\ IsParse
  /\ Len(arg) = 3
  /\ Failing(arg) = {2, 3}
  /\ DocStage(arg[2]) = "convert"
  /\ ret.configurations.nil
  /\ ret.err.e.doc = 2

NonObjectKinds == {"str", "num", "bool", "arr", "null"}

PayloadOnly(json) == [Configuration EXCEPT !.Payload = json]

(* C6 as stated: a document whose JSON form is not an object (a string, a  *)
(* number, a boolean, a list or null) gives, without a failure, one        *)
(* Configuration with only Payload set and a zero YamlNode.                *)
C6_NonObjectsPayloadOnly ==
  (IsParse /\ Failing(arg) = {}) =>
    /\ ret.err.nil
    /\ Len(Built(ret)) = Len(arg)
    /\ \A i \in DOMAIN arg :
         JsonOf(arg[i]).t \in NonObjectKinds => Built(ret)[i] = PayloadOnly(JsonOf(arg[i]))

(* C6, amended: a document whose JSON form is a string, a number, a        *)
(* boolean or a list gives, without a failure, one Configuration with      *)
(* only Payload set and a zero YamlNode; a null document gives one with    *)
(* Payload and YamlNode set, the identity fields empty and Annotations nil. *)
C6_NonObjectsNoIdentity ==
  (IsParse /\ Failing(arg) = {}) =>
    /\ ret.err.nil
    /\ Len(Built(ret)) = Len(arg)
    /\ \A i \in DOMAIN arg :
         /\ JsonOf(arg[i]).t \in NonObjectKinds \ {"null"} =>
              Built(ret)[i] = PayloadOnly(JsonOf(arg[i]))
         /\ JsonOf(arg[i]).t = "null" =>
              Built(ret)[i] = [PayloadOnly(JNull) EXCEPT !.YamlNode = DocumentNode(arg[i].val)]

C6_Witness ==
  /\ IsParse
  /\ Failing(arg) = {}
  /\ Len(arg) = 2
  /\ JsonOf(arg[1]) = JStr("hello")
  /\ JsonOf(arg[2]) = JNull
  /\ ret.err.nil
  /\ Built(ret)[1].YamlNode = ZeroNode
  /\ Built(ret)[2].YamlNode # ZeroNode

(* C7: every Configuration of a successful ParseYaml keeps in YamlNode     *)
(* the parsed node of its document, whatever the kind of document.         *)
C7_YamlNodeRetained ==
  (IsParse /\ ret.err.nil) =>
    \A i \in DOMAIN Built(ret) : Built(ret)[i].YamlNode = DocumentNode(arg[i].val)

----------------------------------------------------------------------------
(* extractConfigurationK8sData *)

StringAt(m, key) == IF key \in DOMAIN m /\ m[key].t = "str" THEN m[key].s ELSE ""

ObjectAt(m, key) == IF key \in DOMAIN m /\ m[key].t = "obj" THEN m[key].m ELSE <<>>

HasObject(m, key) == key \in DOMAIN m /\ m[key].t = "obj"

(* C5: on a JSON object each identity field is projected on its own: Kind  *)
(* is `kind` when a string, ApiVersion `apiVersion` when a string,         *)
(* MetadataName `metadata.name` when metadata is an object and name a      *)
(* string, Annotations `metadata.annotations` when both are objects; each  *)
(* is at its zero value otherwise, whatever the other fields are.          *)
C5_IndependentFields ==
  (op = "extractConfigurationK8sData" /\ arg.content.t = "obj") =>
    LET m == arg.content.m
    IN /\ ret.Kind = StringAt(m, "kind")
       /\ ret.ApiVersion = StringAt(m, "apiVersion")
       /\ ret.MetadataName = StringAt(ObjectAt(m, "metadata"), "name")
       /\ ret.Annotations =
            (IF HasObject(m, "metadata") /\ HasObject(m["metadata"].m, "annotations")
             THEN GoMap(m["metadata"].m["annotations"].m) ELSE NilMap)
       /\ ret.Payload = arg.content
       /\ ret.YamlNode = arg.yamlNode

C5_Witness ==
  /\ op = "extractConfigurationK8sData"
  /\ arg.content.t = "obj"
  /\ "metadata" \notin DOMAIN arg.content.m
  /\ ret.Kind = "Foo"
  /\ ret.ApiVersion = "v1"
  /\ ret.MetadataName = ""
  /\ ret.Annotations = NilMap

====
